---- MODULE Spec2Model ----
(***************************************************************************)
(* Convention-based route derivation and middleware dispatch of the forge  *)
(* web framework (pkg/forge/app.go, pkg/forge/controller.go and the        *)
(* built-in wrappers of package middleware).                               *)
(*                                                                         *)
(* Go strings are modelled as sequences of one-character strings, so that  *)
(* prefix tests, trimming, case conversion and substring search are        *)
(* computed, not assumed.                                                  *)
(***************************************************************************)
EXTENDS Integers, Sequences, FiniteSets, TLC

VARIABLES
    pToken,      \* parser input: the HTTP-method token of the operation name
    pAction,     \* parser input: the action part of the operation name
    pBase,       \* parser input: the base path
    pRoute,      \* parser output: RouteInfo, or NoRoute before the call
    cType,       \* the type name of the controller instance
    appAuth,     \* whether New configured app.auth (Config.Auth.SecretKey set)
    cApp,        \* Controller.app of the controller instance (Nil or TheApp)
    cMiddleware, \* Controller.middleware of the controller instance
    controllers, \* Application.controllers (the registry)
    routes,      \* the fiber router's stack: bindings in registration order
    bindMw,      \* history: Controller.middleware when routes[i] was bound
    bindGroup,   \* history: what the group's middleware was when the controller
                 \* of routes[i] was added to the group; <<>> for a binding
                 \* that was not made by ControllerGroup.Register
    serving,     \* TRUE once Start, Listen or Serve has been called
    gMiddleware, \* ControllerGroup.middleware
    gControllers, \* ControllerGroup.controllers; every entry also remembers
                 \* the group's middleware at the time of Add (history)
    limiter,     \* RateLimit's clients.data: key -> sequence of window entries
    now,         \* the wall clock, in seconds
    crashed,     \* TRUE once a panic escaped on a goroutine nobody recovers
    last,        \* what the request of the latest step did; NoRequest when
                 \* the latest step was no request
    tm,          \* Timeout, one entry per call of the wrapper: the wrapper's
                 \* position, the goroutine of next, the timer, the results
    mu,          \* Application.mu: the writer holding it (0: none) and the
                 \* number of readers
    rc,          \* per goroutine calling RegisterController: its position and
                 \* the registry slice it has read
    rcCalls,     \* history: the goroutines in the order they took app.mu
    api,         \* the goroutine calling GenerateOpenAPI: its position and
                 \* the registry it ranges over
    store,       \* the Redis database behind the cache plugin: store key ->
                 \* [data, expireAt] (expireAt 0: no expiry)
    cacheCalls,  \* history, per cache key: the latest Set or Delete call and
                 \* the latest Set that stored, the latter forgotten on Delete
    cacheLast,   \* what the latest step's Get returned; NoGet when the latest
                 \* step was no Get
    rlLog,       \* history of RateLimit: per key the times of the forwarded
                 \* requests, and the latest request
    rlClients,   \* RateLimit with concurrent requests: clients.data (key ->
                 \* index of its client record), the records with their
                 \* mu, and the goroutine holding clients.mu for writing
    rlG,         \* per goroutine running the RateLimit handler: its
                 \* position, its c, and whether it forwarded
    jq,          \* the queue: the Redis list "queue", the job data by id,
                 \* whether the context is cancelled, and as history what
                 \* was enqueued and the handler's runs per job id
    sd           \* Application.Shutdown: which components the application
                 \* has, and per call what its steps returned, the steps it
                 \* performed and its result

parseVars == <<pToken, pAction, pBase, pRoute>>
groupVars == <<gMiddleware, gControllers>>
appVars == <<cType, appAuth, cApp, cMiddleware, controllers, routes, bindMw,
             bindGroup, serving, groupVars, limiter, now, crashed, last>>

\* the variables of the other machines of this module
registryVars == <<mu, rc, rcCalls, api>>
cacheVars == <<store, cacheCalls, cacheLast>>
extVars == <<rlLog, rlClients, rlG, jq, sd>>
otherVars == <<tm, registryVars, cacheVars, extVars>>

vars == <<parseVars, appVars, otherVars>>

----------------------------------------------------------------------------
(* Strings *)

UpperChars == <<"A","B","C","D","E","F","G","H","I","J","K","L","M",
                "N","O","P","Q","R","S","T","U","V","W","X","Y","Z">>
LowerChars == <<"a","b","c","d","e","f","g","h","i","j","k","l","m",
                "n","o","p","q","r","s","t","u","v","w","x","y","z">>

\* r >= 'A' && r <= 'Z'
IsUpperASCII(r) == \E i \in 1..26 : UpperChars[i] = r

\* unicode.ToLower on the characters the model uses
ToLowerRune(r) ==
    IF IsUpperASCII(r)
    THEN LowerChars[CHOOSE i \in 1..26 : UpperChars[i] = r]
    ELSE r

\* strings.ToLower / strings.ToUpper
ToLower(s) == [i \in 1..Len(s) |-> ToLowerRune(s[i])]
ToUpper(s) ==
    [i \in 1..Len(s) |->
        IF \E k \in 1..26 : LowerChars[k] = s[i]
        THEN UpperChars[CHOOSE k \in 1..26 : LowerChars[k] = s[i]]
        ELSE s[i]]

\* strings.HasPrefix
HasPrefix(s, p) == Len(p) <= Len(s) /\ SubSeq(s, 1, Len(p)) = p

\* strings.HasSuffix
HasSuffix(s, p) ==
    Len(p) <= Len(s) /\ SubSeq(s, Len(s) - Len(p) + 1, Len(s)) = p

\* strings.TrimPrefix
TrimPrefix(s, p) == IF HasPrefix(s, p) THEN SubSeq(s, Len(p) + 1, Len(s)) ELSE s

\* strings.TrimSuffix
TrimSuffix(s, p) == IF HasSuffix(s, p) THEN SubSeq(s, 1, Len(s) - Len(p)) ELSE s

\* strings.Contains
Contains(s, sub) ==
    \E i \in 1..(Len(s) + 1) :
        i + Len(sub) - 1 <= Len(s) /\ SubSeq(s, i, i + Len(sub) - 1) = sub

Handle == <<"H","a","n","d","l","e">>
ControllerSuffix == <<"C","o","n","t","r","o","l","l","e","r">>
Slash == <<"/">>
IdParam == <<"/",":","i","d">>
IndexStr == <<"i","n","d","e","x">>
ByIdStr == <<"b","y","-","i","d">>

----------------------------------------------------------------------------
(* parseRouteFromMethodName *)

\* []string{"Get", "Post", "Put", "Delete", "Patch", "Options", "Head"}
MethodTokens == << <<"G","e","t">>, <<"P","o","s","t">>, <<"P","u","t">>,
                   <<"D","e","l","e","t","e">>, <<"P","a","t","c","h">>,
                   <<"O","p","t","i","o","n","s">>, <<"H","e","a","d">> >>

GET == <<"G","E","T">>

\* the loop over the method tokens, mutated: no break after a match, the
\* later tokens are tried on what is left of the name
RECURSIVE ScanTokensNoBreak(_, _)
ScanTokensNoBreak(actionName, k) ==
    IF k > Len(MethodTokens)
    THEN [httpMethod |-> GET, actionName |-> actionName]
    ELSE IF HasPrefix(actionName, MethodTokens[k])
         THEN LET rest == ScanTokensNoBreak(
                              TrimPrefix(actionName, MethodTokens[k]), k + 1)
              IN  IF rest.actionName = TrimPrefix(actionName, MethodTokens[k])
                  THEN [httpMethod |-> ToUpper(MethodTokens[k]),
                        actionName |-> rest.actionName]
                  ELSE rest
         ELSE ScanTokensNoBreak(actionName, k + 1)

\* the loop over the method tokens, mutated: httpMethod starts empty
RECURSIVE ScanTokensNoDefault(_, _)
ScanTokensNoDefault(actionName, k) ==
    IF k > Len(MethodTokens)
    THEN [httpMethod |-> <<>>, actionName |-> actionName]
    ELSE IF HasPrefix(actionName, MethodTokens[k])
         THEN [httpMethod |-> ToUpper(MethodTokens[k]),
               actionName |-> TrimPrefix(actionName, MethodTokens[k])]
         ELSE ScanTokensNoDefault(actionName, k + 1)

\* the loop over the method tokens: httpMethod starts as GET; the first token
\* that is a prefix of actionName sets httpMethod and is trimmed, then the
\* loop breaks
RECURSIVE ScanTokens(_, _)
ScanTokens(actionName, k) ==
    IF k > Len(MethodTokens)
    THEN [httpMethod |-> GET, actionName |-> actionName]
    ELSE IF HasPrefix(actionName, MethodTokens[k])
         THEN [httpMethod |-> ToUpper(MethodTokens[k]),
               actionName |-> TrimPrefix(actionName, MethodTokens[k])]
         ELSE ScanTokens(actionName, k + 1)

\* the strings.Builder loop, mutated: the guard i > 0 is dropped
RECURSIVE BuildActionPathNoGuard(_, _)
BuildActionPathNoGuard(actionName, i) ==
    IF i > Len(actionName)
    THEN <<>>
    ELSE (IF IsUpperASCII(actionName[i]) THEN <<"-">> ELSE <<>>)
         \o <<ToLowerRune(actionName[i])>>
         \o BuildActionPathNoGuard(actionName, i + 1)

\* the strings.Builder loop: a hyphen before every upper-case rune but the
\* first, every rune lower-cased (i is the 1-based index, Go's i is i - 1)
RECURSIVE BuildActionPath(_, _)
BuildActionPath(actionName, i) ==
    IF i > Len(actionName)
    THEN <<>>
    ELSE (IF i - 1 > 0 /\ IsUpperASCII(actionName[i]) THEN <<"-">> ELSE <<>>)
         \o <<ToLowerRune(actionName[i])>>
         \o BuildActionPath(actionName, i + 1)

parseRouteFromMethodName(methodName, basePath) ==
    LET scan == ScanTokens(TrimPrefix(methodName, Handle), 1)
        httpMethod == scan.httpMethod
        actionName == scan.actionName
        actionPath == BuildActionPath(actionName, 1)
    IN  IF actionName # <<>>
        THEN IF actionPath = IndexStr \/ actionPath = <<>>
             THEN [HTTPMethod |-> httpMethod, Path |-> basePath]
             ELSE IF Contains(actionPath, ByIdStr)
                  THEN [HTTPMethod |-> httpMethod, Path |-> basePath \o IdParam]
                  ELSE [HTTPMethod |-> httpMethod,
                        Path |-> basePath \o Slash \o actionPath]
        ELSE [HTTPMethod |-> httpMethod, Path |-> basePath]

----------------------------------------------------------------------------
(* The parser as a machine: inputs chosen at Init, one call *)

NoRoute == [HTTPMethod |-> <<>>, Path |-> <<>>]

MaxWords == 3

RECURSIVE ActionNames(_)
ActionNames(n) ==
    IF n = 0 THEN { <<>> }
    ELSE ActionNames(n - 1) \cup
         { a \o w : a \in ActionNames(n - 1),
                    w \in { <<"U","s","e","r">>, <<"B","y">>, <<"I","d">>,
                            <<"I","D">>, <<"I","n","d","e","x">>,
                            <<"L","o","g","i","n">>, <<"s">>, <<"b","y">>,
                            <<"P","o","s","t">>, <<"F","o","o">> } }

UserPath == <<"/","u","s","e","r">>
HelloPath == <<"/","h","e","l","l","o">>
TokenSet == { MethodTokens[k] : k \in 1..Len(MethodTokens) }

ParseInit ==
    /\ pToken \in TokenSet \cup { <<>> }
    /\ pAction \in ActionNames(MaxWords)
    /\ pBase \in { UserPath, HelloPath }
    /\ pRoute = NoRoute

Parse ==
    /\ pRoute = NoRoute
    /\ pRoute' = parseRouteFromMethodName((Handle \o pToken \o pAction), pBase)
    /\ UNCHANGED <<pToken, pAction, pBase>>

----------------------------------------------------------------------------
(* Values of the request path: errors, panics, handler results *)

Nil == "nil"
TheApp == "app"

NoVal == [msg |-> "", code |-> 0, isError |-> FALSE]

\* forge.NewAppError(message, status)
NewAppError(msg, code) == [msg |-> msg, code |-> code, isError |-> TRUE]

ErrUnauthorized == NewAppError("Unauthorized", 401)
\* forge.ErrUnauthorized.WithError(err) of a token validation failure
ErrUnauthorizedWithError == NewAppError("Unauthorized: invalid token", 401)
\* the error value an operation returns
OpError == NewAppError("operation failed", 500)
\* runtime errors raised by the Go runtime (they implement error)
NilDeref == [msg |-> "nil pointer dereference", code |-> 0, isError |-> TRUE]
\* what a call of a handler does: returns nil, returns an error, unwinds with
\* a panic, or brings the process down (a panic on a goroutine without recover)
RetNil == [kind |-> "nil", val |-> NoVal]
RetErr(e) == [kind |-> "err", val |-> e]
RetPanic(v) == [kind |-> "panic", val |-> v]

\* what the operation body does on one call
OpOutcome(in) ==
    CASE in.op = "nil" -> RetNil
      [] in.op = "err" -> RetErr(OpError)
      [] in.op = "panicErr" -> RetPanic([msg |-> "panic(err)", code |-> 0,
                                         isError |-> TRUE])
      [] OTHER -> RetPanic([msg |-> "panic(value)", code |-> 0,
                           isError |-> FALSE])

\* the per-request bookkeeping threaded through a call: the events in order,
\* what RequestLogger logged, the limiter's data, the number of calls of the
\* operation, abandoned goroutines, the error RequireAuth rejected with
Ev(st, who, what) == [st EXCEPT !.trace = Append(@, <<who, what>>)]

----------------------------------------------------------------------------
(* RateLimit: config.Max, config.Window (seconds), KeyFunc = ctx.IP() *)

\* the clock counts half seconds: Max 3, Window 2 s
RateMax == 3
RateWindow == 4
RateSecond == 2

RECURSIVE SumCounts(_)
SumCounts(ws) == IF ws = <<>> THEN 0 ELSE Head(ws).count + SumCounts(Tail(ws))

\* the body of the RateLimit handler up to "return next(ctx)":
\* the new clients.data and whether the request is forwarded
RateLimitStep(data, key, t) ==
    LET ws0 == IF key \in DOMAIN data THEN data[key].windows ELSE <<>>
        cutoff == t - RateWindow
        \* the first index (0-based) whose timestamp is after the cutoff,
        \* and 0 when there is none
        start == IF \E i \in 1..Len(ws0) : ws0[i].timestamp > cutoff
                 THEN (CHOOSE i \in 1..Len(ws0) :
                          /\ ws0[i].timestamp > cutoff
                          /\ \A j \in 1..(i - 1) : ws0[j].timestamp <= cutoff) - 1
                 ELSE 0
        ws1 == IF start > 0 THEN SubSeq(ws0, start + 1, Len(ws0)) ELSE ws0
        count == SumCounts(ws1)
        ws2 == IF Len(ws1) > 0 /\ t - ws1[Len(ws1)].timestamp < RateSecond
               THEN [ws1 EXCEPT ![Len(ws1)].count = @ + 1]
               ELSE Append(ws1, [timestamp |-> t, count |-> 1])
        put(ws) == [k \in DOMAIN data \cup {key} |->
                       IF k = key THEN [windows |-> ws, lastAccessed |-> t]
                       ELSE data[k]]
    IN  IF count >= RateMax
        THEN [forward |-> FALSE, data |-> put(ws1)]
        ELSE [forward |-> TRUE, data |-> put(ws2)]

----------------------------------------------------------------------------
(* The middleware chain of Controller.registerRoute and the built-in wrappers *)

\* finalHandler: the innermost handler of registerRoute
finalHandler == [mw |-> "finalHandler"]

\* the chain loop, mutated: the wrappers are applied in registration order
RECURSIVE WrapForward(_, _, _)
WrapForward(mws, i, chain) ==
    IF i > Len(mws) THEN chain
    ELSE WrapForward(mws, i + 1, [mw |-> mws[i], next |-> chain])

BuildChainForward(mws) == WrapForward(mws, 1, finalHandler)

\* for i := len(c.middleware) - 1; i >= 0; i-- { chain = c.middleware[i](chain) }
RECURSIVE WrapFrom(_, _, _)
WrapFrom(mws, i, chain) ==
    IF i < 1 THEN chain
    ELSE WrapFrom(mws, i - 1, [mw |-> mws[i], next |-> chain])

BuildChain(mws) == WrapFrom(mws, Len(mws), finalHandler)

Unwinds(r) == r.ret.kind \in {"panic", "crash"}

\* One call of handler h.  in: the request (token, operation outcome, who wins
\* the Timeout race, client ip); env: ctx.App() and whether the application has
\* auth configured, and the clock; st: trace, log, limiter data, counters.
RECURSIVE Call(_, _, _, _)
Call(h, in, env, st) ==
    CASE h.mw = "finalHandler" ->
            \* method.Func.Call(...)[0].Interface().(error): the assertion
            \* panics when the operation returned a nil error
            LET s1 == [Ev(st, "op", "call") EXCEPT !.calls = @ + 1]
                out == OpOutcome(in)
            IN  [ret |-> IF out.kind = "nil"
                         THEN RetPanic([msg |-> "interface conversion: interface is nil, not error",
                                        code |-> 0, isError |-> TRUE])
                         ELSE out,
                 st |-> s1]
      [] h.mw \in {"A", "B", "C"} ->
            \* a wrapper that works, calls next exactly once, works again
            LET r == Call(h.next, in, env, Ev(st, h.mw, "pre"))
            IN  IF Unwinds(r) THEN r
                ELSE [ret |-> r.ret, st |-> Ev(r.st, h.mw, "post")]
      [] h.mw = "RequestLogger" ->
            LET r == Call(h.next, in, env, Ev(st, h.mw, "pre"))
            IN  IF Unwinds(r) THEN r
                ELSE IF env.ctxApp = Nil
                     THEN [ret |-> RetPanic(NilDeref), st |-> r.st]
                     ELSE [ret |-> r.ret,
                           st |-> [Ev(r.st, h.mw, "post")
                                      EXCEPT !.logged = Append(@, r.ret)]]
      [] h.mw = "Recover" ->
            LET r == Call(h.next, in, env, Ev(st, h.mw, "pre"))
                err == IF r.ret.val.isError THEN r.ret.val
                       ELSE NewAppError("Internal Server Error", 500)
            IN  IF r.ret.kind = "panic"
                THEN IF env.ctxApp = Nil
                     THEN [ret |-> RetPanic(NilDeref), st |-> r.st]
                     ELSE [ret |-> RetErr(err),
                           st |-> Ev(r.st, h.mw, "recovered")]
                ELSE r
      [] h.mw = "RequireAuth" ->
            LET s1 == Ev(st, h.mw, "pre")
            IN  IF in.token = ""
                THEN [ret |-> RetErr(ErrUnauthorized),
                      st |-> [Ev(s1, h.mw, "reject")
                                 EXCEPT !.authErr = ErrUnauthorized]]
                ELSE IF env.ctxApp = Nil \/ ~env.appAuth
                THEN [ret |-> RetPanic(NilDeref), st |-> s1]
                ELSE IF in.token = "bad"
                THEN [ret |-> RetErr(ErrUnauthorizedWithError),
                      st |-> [Ev(s1, h.mw, "reject")
                                 EXCEPT !.authErr = ErrUnauthorizedWithError]]
                ELSE Call(h.next, in, env, s1)
      [] h.mw = "RateLimit" ->
            LET s1 == Ev(st, h.mw, "pre")
                step == RateLimitStep(s1.limiter, in.ip, env.now)
                s2 == [s1 EXCEPT !.limiter = step.data]
            IN  IF step.forward
                THEN Call(h.next, in, env, s2)
                ELSE [ret |-> RetErr(NewAppError("Rate limit exceeded", 429)),
                      st |-> s2]
      [] OTHER ->
            \* Timeout: next runs on a new goroutine, the wrapper waits for
            \* its result or for the timer, whichever comes first
            LET r == Call(h.next, in, env, Ev(st, h.mw, "pre"))
            IN  IF Unwinds(r)
                THEN [ret |-> [kind |-> "crash", val |-> NoVal], st |-> [r.st EXCEPT !.crashed = TRUE]]
                ELSE IF in.timerFirst
                THEN [ret |-> RetErr(NewAppError("Request timeout", 408)),
                      st |-> [r.st EXCEPT !.leaked = @ + 1]]
                ELSE r

----------------------------------------------------------------------------
(* Controllers and their method sets (reflect lists exported methods sorted
   by name; the methods of the embedded forge.Controller are promoted) *)

HelloController == <<"H","e","l","l","o","C","o","n","t","r","o","l","l","e","r">>
UserController == <<"U","s","e","r","C","o","n","t","r","o","l","l","e","r">>
\* forge.Controller itself, as in (&forge.Controller{}).Group("/api")
BareController == ControllerSuffix

HandleGetHello == <<"H","a","n","d","l","e","G","e","t","H","e","l","l","o">>
HandleDeleteUser == <<"H","a","n","d","l","e","D","e","l","e","t","e","U","s","e","r">>
HandleGetUserPosts == <<"H","a","n","d","l","e","G","e","t","U","s","e","r","P","o","s","t","s">>
HandleGetUsers == <<"H","a","n","d","l","e","G","e","t","U","s","e","r","s">>
HandlePostUser == <<"H","a","n","d","l","e","P","o","s","t","U","s","e","r">>
HandlePutUserById == <<"H","a","n","d","l","e","P","u","t","U","s","e","r","B","y","I","d">>

Methods(t) ==
    IF t = HelloController
    THEN << <<"A","p","p">>, <<"G","r","o","u","p">>, HandleGetHello,
            <<"R","e","g","i","s","t","e","r","R","o","u","t","e","s">>, <<"S","e","t","A","p","p","l","i","c","a","t","i","o","n">>, <<"U","s","e">> >>
    ELSE IF t = BareController
    THEN << <<"A","p","p">>, <<"G","r","o","u","p">>,
            <<"R","e","g","i","s","t","e","r","R","o","u","t","e","s">>, <<"S","e","t","A","p","p","l","i","c","a","t","i","o","n">>, <<"U","s","e">> >>
    ELSE << <<"A","p","p">>, <<"G","r","o","u","p">>, HandleDeleteUser, HandleGetUserPosts,
            HandleGetUsers, HandlePostUser, HandlePutUserById,
            <<"R","e","g","i","s","t","e","r","R","o","u","t","e","s">>, <<"S","e","t","A","p","p","l","i","c","a","t","i","o","n">>, <<"U","s","e">> >>

HTTPMethods == { ToUpper(MethodTokens[k]) : k \in 1..Len(MethodTokens) }

\* splitCamelCase: a new part starts at every upper-case rune but the first
RECURSIVE splitCamelCaseFrom(_, _, _, _)
splitCamelCaseFrom(s, i, parts, current) ==
    IF i > Len(s)
    THEN IF Len(current) > 0 THEN Append(parts, current) ELSE parts
    ELSE IF i - 1 > 0 /\ IsUpperASCII(s[i])
         THEN splitCamelCaseFrom(s, i + 1, Append(parts, current), <<s[i]>>)
         ELSE splitCamelCaseFrom(s, i + 1, parts, Append(current, s[i]))

\* strings.Join(parts, "/")
RECURSIVE JoinSlash(_)
JoinSlash(parts) ==
    IF parts = <<>> THEN <<>>
    ELSE IF Len(parts) = 1 THEN parts[1]
    ELSE parts[1] \o Slash \o JoinSlash(Tail(parts))

\* the method and path Controller.registerRoute derives from a method name
registerRouteInfo(methodName) ==
    LET parts == splitCamelCaseFrom(TrimPrefix(methodName, Handle), 1, <<>>, <<>>)
    IN  [HTTPMethod |-> IF Len(parts) > 0 THEN ToUpper(parts[1]) ELSE <<>>,
         Path |-> IF Len(parts) > 1
                  THEN Slash \o ToLower(JoinSlash(Tail(parts)))
                  ELSE <<>>]

----------------------------------------------------------------------------
(* The router: bindings in registration order, first match serves *)

\* the segments of a path
RECURSIVE SplitPath(_, _, _)
SplitPath(path, i, cur) ==
    IF i > Len(path)
    THEN IF cur = <<>> THEN <<>> ELSE <<cur>>
    ELSE IF path[i] = "/"
         THEN (IF cur = <<>> THEN <<>> ELSE <<cur>>) \o SplitPath(path, i + 1, <<>>)
         ELSE SplitPath(path, i + 1, Append(cur, path[i]))

\* a route pattern matches a request path segment by segment; a segment
\* that starts with ":" is a parameter and matches any segment
Match(pattern, path) ==
    LET ps == (SplitPath(pattern, 1, <<>>))
        qs == (SplitPath(path, 1, <<>>))
    IN  /\ Len(ps) = Len(qs)
        /\ \A i \in 1..Len(ps) : ps[i][1] = ":" \/ ps[i] = qs[i]

\* the index of the first binding from i on that serves the request, 0 when
\* none matches
RECURSIVE LookupFrom(_, _, _)
LookupFrom(rs, req, i) ==
    IF i > Len(rs) THEN 0
    ELSE IF rs[i].method = req.method /\ Match(rs[i].path, req.path) THEN i
    ELSE LookupFrom(rs, req, i + 1)

\* New: app.server.Get("/", welcome page)
WelcomeRoute == [method |-> GET, path |-> Slash, kind |-> "welcome", name |-> <<>>]

----------------------------------------------------------------------------
(* Handlers bound to routes *)

NewStats(data) ==
    [trace |-> <<>>, logged |-> <<>>, limiter |-> data,
     calls |-> 0, crashed |-> FALSE, leaked |-> 0, authErr |-> NoVal]

\* createHandlerFunc: ctx := &Context{Ctx: c}; calls the method; returns its
\* error when the result is not nil, nil otherwise
createHandlerFunc(in, st) ==
    [ret |-> OpOutcome(in),
     st |-> [Ev(st, "op", "call") EXCEPT !.calls = @ + 1]]

\* the handler closure of registerRoute: reads c.app and c.middleware when
\* the request arrives
routeHandler(mws, in, env, st) ==
    IF Len(mws) > 0
    THEN Call(BuildChain(mws), in, env, st)
    ELSE Call(finalHandler, in, env, st)

\* what serving a request on binding r does, with the controller's
\* fields as they are when the request arrives
ServeRoute(r, in, app, mws, auth, data, t) ==
    CASE r.kind = "welcome" -> [ret |-> RetNil, st |-> NewStats(data)]
      [] r.kind = "createHandlerFunc" -> createHandlerFunc(in, NewStats(data))
      [] OTHER -> routeHandler(mws, in,
                               [ctxApp |-> IF r.kind = "registerRoute" THEN app ELSE Nil, appAuth |-> auth,
                                now |-> t],
                               NewStats(data))

----------------------------------------------------------------------------
(* Bounds and inputs *)

MaxMw == 3
MaxRegistrations == 1
MaxRouteRegistrations == 2
MaxGroup == 2

Inputs == [token : {"", "bad", "good"},
           op : {"nil", "err", "panicErr", "panicVal"},
           timerFirst : BOOLEAN, ip : {"10.0.0.1"}]

Req(m, p) == [method |-> m, path |-> p]
DefaultInput == [token |-> "good", op |-> "nil", timerFirst |-> FALSE,
                 ip |-> "10.0.0.1"]

Requests ==
    { Req(GET, HelloPath), Req(GET, HelloPath \o HelloPath),
      Req(GET, UserPath), Req(GET, UserPath \o <<"/","u","s","e","r","s">>),
      Req(<<"P","O","S","T">>, UserPath), Req(<<"P","U","T">>, UserPath \o <<"/","7">>),
      Req(<<"D","E","L","E","T","E">>, UserPath), Req(GET, UserPath \o <<"/","p","o","s","t","s">>),
      Req(GET, Slash), Req(GET, UserPath \o <<"/","u","s","e","r","-","p","o","s","t","s">>),
      Req(<<"P","O","S","T">>, UserPath \o UserPath), Req(<<"D","E","L","E","T","E">>, UserPath \o UserPath) }

NoRequest ==
    [req |-> Req(<<>>, <<>>), op |-> "nil", route |-> -1, kind |-> "none", mws |-> <<>>, ctxApp |-> Nil,
     status |-> 0, ret |-> RetNil, trace |-> <<>>, logged |-> <<>>,
     calls |-> 0, leaked |-> 0, authErr |-> NoVal, before |-> <<>>]

----------------------------------------------------------------------------
(* The state of Timeout calls *)

MaxTimeoutCalls == 2

TimeoutCalls == 1..MaxTimeoutCalls

\* forge.NewAppError("Request timeout", 408)
TimeoutError == NewAppError("Request timeout", 408)

\* one call of the wrapper.  wrapper: idle, spawned (the goroutine is started,
\* the select is not yet entered), selecting, returned; inner: none, running
\* (inside next), sending (next has returned, done <- is pending), exited,
\* panicked; timer: unset, armed, fired; order (history): the events
\* "inner" (next returned) and "timer" (the timer fired) that happened before
\* the wrapper returned, in order
TmInit ==
    [r \in TimeoutCalls |->
        [wrapper |-> "idle", inner |-> "none", timer |-> "unset",
         innerRet |-> [kind |-> "none", val |-> NoVal],
         ret |-> [kind |-> "none", val |-> NoVal], order |-> <<>>]]

----------------------------------------------------------------------------
(* The state of concurrent RegisterController and GenerateOpenAPI calls *)

MaxGoroutines == 3

Goroutines == 1..MaxGoroutines

\* the controller goroutine g registers
ControllerOf(g) ==
    CASE g % 3 = 1 -> HelloController
      [] g % 3 = 2 -> UserController
      [] OTHER -> BareController

RegistryIdle ==
    /\ mu = [w |-> 0, r |-> 0]
    /\ rc = [g \in Goroutines |-> [pc |-> "idle", local |-> <<>>, app |-> Nil]]
    /\ rcCalls = <<>>
    /\ api = [pc |-> "idle", seen |-> <<>>]

----------------------------------------------------------------------------
(* The cache plugin: values, JSON, the Redis database *)

MaxTime == 2

\* Config.Prefix, as in the plugin's test
Prefix == <<"t","e","s","t",":">>

CacheKeys == { <<"k">>, <<"k","2">> }

\* a key of the database that is not the plugin's
ForeignKey == <<"k">>

\* a Go value of a kind: string, int, float64, chan (which encoding/json
\* does not support), or the zero value of a target Get did not write
GoValue(kind, v) == [kind |-> kind, v |-> v]
ZeroValue == GoValue("zero", 0)

Digits == <<"0","1","2","3","4","5","6","7","8","9">>

\* json.Marshal: a string in quotes, an int as its digit, an error for a
\* value that has no JSON encoding
Marshal(value) ==
    CASE value.kind = "string" ->
            [err |-> "", data |-> <<"\"">> \o value.v \o <<"\"">>]
      [] value.kind = "int" ->
            [err |-> "", data |-> <<Digits[value.v + 1]>>]
      [] OTHER ->
            [err |-> "failed to marshal value", data |-> <<>>]

\* json.Unmarshal(data, target) for a target of type string, int or
\* interface{} ("any")
Unmarshal(data, target) ==
    LET isString == Len(data) >= 2 /\ data[1] = "\"" /\ data[Len(data)] = "\""
        isNumber == Len(data) = 1 /\ \E d \in 1..10 : Digits[d] = data[1]
        str == GoValue("string", SubSeq(data, 2, Len(data) - 1))
        num == (CHOOSE d \in 1..10 : Digits[d] = data[1]) - 1
    IN  CASE target = "string" /\ isString -> [err |-> "", value |-> str]
          [] target = "int" /\ isNumber ->
                [err |-> "", value |-> GoValue("int", num)]
          [] target = "any" /\ isString -> [err |-> "", value |-> str]
          [] target = "any" /\ isNumber ->
                [err |-> "", value |-> GoValue("float64", num)]
          [] OTHER -> [err |-> "json: cannot unmarshal", value |-> ZeroValue]

\* forge.ErrNotFound
ErrNotFound == "forge.ErrNotFound"

\* the error of a command that did not reach the server
RedisError == "redis: connection refused"

\* CachePlugin.Delete, mutated: the prefix is left out
CacheDeleteNoPrefix(db, key, ok) ==
    IF ~ok
    THEN [db |-> db, err |-> RedisError]
    ELSE [db |-> [x \in DOMAIN db \ {key} |-> db[x]], err |-> ""]

\* CachePlugin.Delete: the new database (Redis DEL removes the key) and the
\* error; ok: the command reaches the server
CacheDelete(db, key, ok) ==
    IF ~ok
    THEN [db |-> db, err |-> RedisError]
    ELSE [db |-> [x \in DOMAIN db \ {Prefix \o key} |-> db[x]], err |-> ""]

\* CachePlugin.Set at time t: the new database (Redis SET stores the data
\* under the key, to expire ttl later unless ttl is 0) and the error
CacheSet(db, key, value, ttl, t, ok) ==
    LET m == Marshal(value)
        k == Prefix \o key
        entry == [data |-> m.data, expireAt |-> IF ttl = 0 THEN 0 ELSE t + ttl]
    IN  CASE m.err # "" -> [db |-> db, err |-> m.err]
          [] ~ok -> [db |-> db, err |-> RedisError]
          [] OTHER ->
                [db |-> [x \in DOMAIN db \cup {k} |->
                            IF x = k THEN entry ELSE db[x]],
                 err |-> ""]

\* CachePlugin.Get at time t: the error and what the target holds
\* afterwards (Redis GET finds the key while it has not expired)
CacheGet(db, key, target, t, ok) ==
    LET k == Prefix \o key
        live == k \in DOMAIN db /\ (db[k].expireAt = 0 \/ t < db[k].expireAt)
    IN  CASE ~ok -> [err |-> RedisError, value |-> ZeroValue]
          [] ~live -> [err |-> ErrNotFound, value |-> ZeroValue]
          [] OTHER -> Unmarshal(db[k].data, target)

NoCall == [op |-> "none", value |-> ZeroValue, at |-> 0, ttl |-> 0, err |-> ""]

\* what a Get or GetOrSet call is remembered by: its arguments, what it
\* returned, and for GetOrSet what fn returned, how often fn was called, the
\* database before the call and the latest stored Set before the call
NoGet == [op |-> "none", key |-> <<>>, target |-> "", err |-> "",
          value |-> ZeroValue, fn |-> [err |-> "", value |-> ZeroValue],
          fnCalls |-> 0, before |-> <<>>, prior |-> NoCall]

\* CachePlugin.GetOrSet, mutated: the cache is not consulted
CacheGetOrSetNoLookup(db, key, target, ttl, fn, t, okGet, okSet) ==
    LET s == CacheSet(db, key, fn.value, ttl, t, okSet)
        u == Unmarshal(Marshal(fn.value).data, target)
    IN  CASE fn.err # "" ->
                [db |-> db, err |-> fn.err, value |-> ZeroValue, fnCalls |-> 1]
          [] s.err # "" ->
                [db |-> db, err |-> s.err, value |-> ZeroValue, fnCalls |-> 1]
          [] OTHER ->
                [db |-> s.db, err |-> u.err, value |-> u.value, fnCalls |-> 1]

\* CachePlugin.GetOrSet at time t: the new database, the error, what the
\* target holds afterwards and how often fn was called; fn: what fn returns
CacheGetOrSet(db, key, target, ttl, fn, t, okGet, okSet) ==
    LET g == CacheGet(db, key, target, t, okGet)
        s == CacheSet(db, key, fn.value, ttl, t, okSet)
        u == Unmarshal(Marshal(fn.value).data, target)
    IN  CASE g.err # ErrNotFound ->
                [db |-> db, err |-> g.err, value |-> g.value, fnCalls |-> 0]
          [] fn.err # "" ->
                [db |-> db, err |-> fn.err, value |-> ZeroValue, fnCalls |-> 1]
          [] s.err # "" ->
                [db |-> db, err |-> s.err, value |-> ZeroValue, fnCalls |-> 1]
          [] OTHER ->
                [db |-> s.db, err |-> u.err, value |-> u.value, fnCalls |-> 1]

CacheIdle ==
    /\ store = [k \in {ForeignKey} |-> [data |-> <<"x">>, expireAt |-> 0]]
    /\ cacheCalls = [k \in CacheKeys |-> [latest |-> NoCall, stored |-> NoCall]]
    /\ cacheLast = NoGet

----------------------------------------------------------------------------
(* The state of RateLimit under sequential and concurrent requests *)

MaxRateTime == 5

MaxJobs == 2

MaxShutdowns == 2

RateKeys == {"10.0.0.1", "10.0.0.2"}

ExtIdle ==
    /\ rlLog = [fwd |-> [k \in RateKeys |-> <<>>], 
                last |-> [key |-> "", at |-> 0, forward |-> FALSE,
                          prior |-> <<>>]]
    /\ rlClients = [data |-> <<>>, recs |-> <<>>, mu |-> 0]
    /\ rlG = [g \in Goroutines |-> [pc |-> "idle", c |-> 0, forward |-> FALSE]]
    /\ jq = [queue |-> <<>>, jobs |-> <<>>, cancelled |-> FALSE,
             enqueued |-> <<>>, runs |-> [id \in 1..MaxJobs |-> <<>>]]
    /\ sd = [has |-> <<>>, calls |-> <<>>]

----------------------------------------------------------------------------
(* The application as a machine *)

Init ==
    /\ pToken = <<>> /\ pAction = <<>> /\ pBase = <<>> /\ pRoute = NoRoute
    /\ cType = HelloController
    /\ appAuth \in BOOLEAN
    /\ cApp = Nil
    /\ cMiddleware = <<>>
    /\ controllers = <<>>
    /\ routes = <<WelcomeRoute>>
    /\ bindMw = << <<>> >>
    /\ bindGroup = << <<>> >>
    /\ serving = FALSE
    /\ gMiddleware = <<>>
    /\ gControllers = <<>>
    /\ limiter = <<>>
    /\ now = 0
    /\ crashed = FALSE
    /\ last = NoRequest
    /\ tm = TmInit
    /\ RegistryIdle
    /\ CacheIdle
    /\ ExtIdle

\* the names among ms that start with "Handle", in order
RECURSIVE HandleMethods(_)
HandleMethods(ms) ==
    IF ms = <<>> THEN <<>>
    ELSE (IF HasPrefix(Head(ms), Handle) THEN <<Head(ms)>> ELSE <<>>)
         \o HandleMethods(Tail(ms))

\* Controller.Use
Use(ms) ==
    /\ ~crashed
    /\ Len(cMiddleware) + Len(ms) <= MaxMw
    /\ cMiddleware' = cMiddleware \o ms
    /\ last' = NoRequest
    /\ UNCHANGED <<parseVars, cType, appAuth, cApp, controllers, routes, bindMw,
                   bindGroup, serving, groupVars, limiter, now, crashed>>
    /\ UNCHANGED otherVars

\* Controller.SetApplication
SetApplication ==
    /\ ~crashed
    /\ cApp' = TheApp
    /\ last' = NoRequest
    /\ UNCHANGED <<parseVars, cType, appAuth, cMiddleware, controllers, routes,
                   bindMw, bindGroup, serving, groupVars, limiter, now, crashed>>
    /\ UNCHANGED otherVars

\* the cases of the switch on routeInfo.HTTPMethod, mutated: no case "DELETE"
SwitchCasesNoDelete ==
    { <<"G","E","T">>, <<"P","O","S","T">>, <<"P","U","T">>,
      <<"P","A","T","C","H">>, <<"O","P","T","I","O","N","S">>, <<"H","E","A","D">> }

\* the cases of the switch on routeInfo.HTTPMethod
SwitchCases ==
    { <<"G","E","T">>, <<"P","O","S","T">>, <<"P","U","T">>,
      <<"D","E","L","E","T","E">>, <<"P","A","T","C","H">>,
      <<"O","P","T","I","O","N","S">>, <<"H","E","A","D">> }

\* the loop of RegisterController over the Handle methods: parse the name,
\* build the handler, register it with the router when the method is one of
\* the switch's cases
RECURSIVE RegisterMethods(_, _)
RegisterMethods(hs, basePath) ==
    IF hs = <<>> THEN <<>>
    ELSE LET routeInfo == parseRouteFromMethodName(Head(hs), basePath)
         IN  (IF routeInfo.HTTPMethod \in SwitchCases
              THEN << [method |-> routeInfo.HTTPMethod, path |-> routeInfo.Path,
                       kind |-> "createHandlerFunc", name |-> Head(hs)] >>
              ELSE <<>>)
             \o RegisterMethods(Tail(hs), basePath)

\* the bindings Application.RegisterController installs for type t
RegisterControllerRoutes(t) ==
    RegisterMethods(HandleMethods(Methods(t)),
                    Slash \o ToLower(TrimSuffix(t, ControllerSuffix)))

\* Application.RegisterController (app.mu is held for the whole call)
RegisterController ==
    /\ ~crashed
    /\ cApp' = TheApp
    /\ controllers' = Append(controllers, cType)
    /\ LET new == RegisterControllerRoutes(cType)
       IN  /\ routes' = routes \o new
           /\ bindMw' = bindMw \o [i \in 1..Len(new) |-> cMiddleware]
           /\ bindGroup' = bindGroup \o [i \in 1..Len(new) |-> <<>>]
    /\ last' = NoRequest
    /\ UNCHANGED <<parseVars, cType, appAuth, cMiddleware, serving, groupVars,
                   limiter, now, crashed>>
    /\ UNCHANGED otherVars

\* the bindings Controller.RegisterRoutes installs through registerRoute: one
\* per Handle method whose first camel-case part is an HTTP method
RECURSIVE registerRoute(_)
registerRoute(hs) ==
    IF hs = <<>> THEN <<>>
    ELSE LET info == registerRouteInfo(Head(hs))
         IN  (IF info.HTTPMethod \in HTTPMethods
              THEN << [method |-> info.HTTPMethod,
                       path |-> IF info.Path = <<>> THEN Slash ELSE info.Path,
                       kind |-> "registerRoute", name |-> Head(hs)] >>
              ELSE <<>>)
             \o registerRoute(Tail(hs))

\* Controller.RegisterRoutes: registerRoute for every method with the Handle
\* prefix.  The method set is taken to be the one that carries the
\* controller's Handle operations; the handler later calls the method with
\* the *Controller as receiver.
RegisterRoutes ==
    /\ ~crashed
    /\ LET new == registerRoute(HandleMethods(Methods(cType)))
       IN  /\ routes' = routes \o new
           /\ bindMw' = bindMw \o [i \in 1..Len(new) |-> cMiddleware]
           /\ bindGroup' = bindGroup \o [i \in 1..Len(new) |-> <<>>]
    /\ last' = NoRequest
    /\ UNCHANGED <<parseVars, cType, appAuth, cApp, cMiddleware, controllers,
                   serving, groupVars, limiter, now, crashed>>
    /\ UNCHANGED otherVars

\* the number of RegisterController and RegisterRoutes calls so far
Registrations ==
    LET rr == registerRoute(HandleMethods(Methods(cType)))
        n == Cardinality({ i \in 1..Len(routes) : routes[i].kind = "registerRoute" })
    IN  Len(controllers) + (IF Len(rr) = 0 THEN 0 ELSE n \div Len(rr))

\* Controller.Group: a new group that starts with the controller's middleware
Group ==
    /\ ~crashed
    /\ gMiddleware' = cMiddleware
    /\ gControllers' = <<>>
    /\ last' = NoRequest
    /\ UNCHANGED <<parseVars, cType, appAuth, cApp, cMiddleware, controllers,
                   routes, bindMw, bindGroup, serving, limiter, now, crashed>>
    /\ UNCHANGED otherVars

\* ControllerGroup.Use
GroupUse(ms) ==
    /\ ~crashed
    /\ gMiddleware' = gMiddleware \o ms
    /\ last' = NoRequest
    /\ UNCHANGED <<parseVars, cType, appAuth, cApp, cMiddleware, controllers,
                   routes, bindMw, bindGroup, serving, gControllers, limiter,
                   now, crashed>>
    /\ UNCHANGED otherVars

\* ControllerGroup.Add: the assertion controller.(*Controller) holds only for
\* a forge.Controller itself, not for a type that embeds it
GroupAdd ==
    /\ ~crashed
    /\ gControllers' = Append(gControllers,
                              [controller |-> cType, mw |-> gMiddleware])
    /\ cMiddleware' = IF cType = BareController
                      THEN cMiddleware \o gMiddleware
                      ELSE cMiddleware
    /\ last' = NoRequest
    /\ UNCHANGED <<parseVars, cType, appAuth, cApp, controllers, routes, bindMw,
                   bindGroup, serving, gMiddleware, limiter, now, crashed>>
    /\ UNCHANGED otherVars

\* the bindings of ControllerGroup.Register: RegisterController for every
\* controller of the group, in order
RECURSIVE GroupBindings(_)
GroupBindings(gs) ==
    IF gs = <<>> THEN <<>>
    ELSE LET new == RegisterControllerRoutes(Head(gs).controller)
         IN  [i \in 1..Len(new) |-> [route |-> new[i], mw |-> Head(gs).mw]]
             \o GroupBindings(Tail(gs))

\* ControllerGroup.Register
GroupRegister ==
    /\ ~crashed
    /\ cApp' = IF Len(gControllers) > 0 THEN TheApp ELSE cApp
    /\ controllers' = controllers
                        \o [i \in 1..Len(gControllers) |-> gControllers[i].controller]
    /\ LET new == GroupBindings(gControllers)
       IN  /\ routes' = routes \o [i \in 1..Len(new) |-> new[i].route]
           /\ bindMw' = bindMw \o [i \in 1..Len(new) |-> cMiddleware]
           /\ bindGroup' = bindGroup \o [i \in 1..Len(new) |-> new[i].mw]
    /\ last' = NoRequest
    /\ UNCHANGED <<parseVars, cType, appAuth, cMiddleware, serving, groupVars,
                   limiter, now, crashed>>
    /\ UNCHANGED otherVars

\* Application.Start: app.server.Listen on the configured address
Start ==
    /\ ~crashed
    /\ serving' = TRUE
    /\ last' = NoRequest
    /\ UNCHANGED <<parseVars, cType, appAuth, cApp, cMiddleware, controllers,
                   routes, bindMw, bindGroup, groupVars, limiter, now, crashed>>
    /\ UNCHANGED otherVars

\* Application.Listen: app.server.Listen(addr)
Listen ==
    /\ ~crashed
    /\ serving' = TRUE
    /\ last' = NoRequest
    /\ UNCHANGED <<parseVars, cType, appAuth, cApp, cMiddleware, controllers,
                   routes, bindMw, bindGroup, groupVars, limiter, now, crashed>>
    /\ UNCHANGED otherVars

\* Application.Serve: return app.Start()
Serve ==
    /\ ~crashed
    /\ Start

\* one request with an input of ins, served by the first matching binding
\* (404 when none)
Request(req, ins) ==
    /\ ~crashed
    /\ \E i \in {(LookupFrom(routes, req, 1))}, in \in ins :
           IF i = 0
           THEN /\ last' = [NoRequest EXCEPT !.req = req, !.op = in.op,
                                             !.route = 0, !.status = 404]
                /\ UNCHANGED <<limiter, crashed>>
           ELSE \E r \in {ServeRoute(routes[i], in, cApp, cMiddleware, appAuth,
                                     limiter, now)} :
                    /\ last' = [req |-> req, op |-> in.op, route |-> i,
                                kind |-> routes[i].kind, mws |-> cMiddleware,
                                ctxApp |-> IF routes[i].kind = "registerRoute"
                                            THEN cApp ELSE Nil,
                                status |-> CASE r.ret.kind = "nil" -> 200
                                             [] r.ret.kind = "crash" -> 0
                                             [] OTHER -> 500,
                                ret |-> r.ret, trace |-> r.st.trace,
                                logged |-> r.st.logged, calls |-> r.st.calls,
                                leaked |-> r.st.leaked,
                                authErr |-> r.st.authErr, before |-> limiter]
                    /\ limiter' = r.st.limiter
                    /\ crashed' = r.st.crashed
    /\ UNCHANGED <<parseVars, cType, appAuth, cApp, cMiddleware, controllers,
                   routes, bindMw, bindGroup, serving, groupVars, now>>
    /\ UNCHANGED otherVars

Next ==
    \/ \E ms \in { <<"A", "B", "C">>,
                    <<"RequestLogger", "RequireAuth", "RateLimit">>,
                    <<"Recover">>, <<"Timeout">> } : Use(ms)
    \/ SetApplication
    \/ (Registrations < MaxRegistrations /\ RegisterController)
    \/ (Registrations < MaxRegistrations /\ RegisterRoutes)
    \/ \E req \in { Req(GET, HelloPath), Req(GET, HelloPath \o HelloPath) } :
           Request(req, Inputs)

Spec == Init /\ [][Next]_vars

\* registration, start and dispatch for every controller type, without
\* middleware on the routes
RoutesInit ==
    /\ pToken = <<>> /\ pAction = <<>> /\ pBase = <<>> /\ pRoute = NoRoute
    /\ cType \in { HelloController, UserController, BareController }
    /\ appAuth = FALSE
    /\ cApp = Nil /\ cMiddleware = <<>> /\ controllers = <<>>
    /\ routes = <<WelcomeRoute>> /\ bindMw = << <<>> >>
    /\ bindGroup = << <<>> >> /\ serving = FALSE
    /\ gMiddleware = <<>> /\ gControllers = <<>>
    /\ limiter = <<>> /\ now = 0 /\ crashed = FALSE /\ last = NoRequest
    /\ tm = TmInit
    /\ RegistryIdle
    /\ CacheIdle
    /\ ExtIdle

RoutesNext ==
    \/ (Registrations < MaxRouteRegistrations /\ RegisterController)
    \/ (Registrations < MaxRouteRegistrations /\ RegisterRoutes)
    \/ Start
    \/ Listen
    \/ Serve
    \/ \E req \in Requests : Request(req, {DefaultInput})

SpecRoutes == RoutesInit /\ [][RoutesNext]_vars

\* controller groups: Group, Use, Add, Register, and dispatch
GroupNext ==
    \/ Group
    \/ \E ms \in { <<"A">> } :
           (Len(gMiddleware) + Len(ms) <= MaxMw /\ GroupUse(ms))
    \/ (/\ Len(gControllers) < MaxGroup
        /\ Len(cMiddleware) + Len(gMiddleware) <= MaxMw
        /\ GroupAdd)
    \/ (Len(controllers) + Len(gControllers) <= MaxGroup /\ GroupRegister)
    \/ \E req \in { Req(GET, HelloPath \o HelloPath),
                     Req(GET, UserPath \o <<"/","u","s","e","r","s">>),
                     Req(<<"P","U","T">>, UserPath \o <<"/","7">>) } :
           Request(req, {DefaultInput})

SpecGroup == RoutesInit /\ [][GroupNext]_vars

\* the parser alone
\* the state after forge.New, with one controller constructed
IdleInit ==
    /\ pToken = <<>> /\ pAction = <<>> /\ pBase = <<>> /\ pRoute = NoRoute
    /\ cType = HelloController /\ appAuth = FALSE /\ cApp = Nil
    /\ cMiddleware = <<>> /\ controllers = <<>> /\ routes = <<WelcomeRoute>>
    /\ bindMw = << <<>> >> /\ bindGroup = << <<>> >> /\ serving = FALSE
    /\ gMiddleware = <<>> /\ gControllers = <<>>
    /\ limiter = <<>> /\ now = 0 /\ crashed = FALSE
    /\ last = NoRequest
    /\ tm = TmInit
    /\ RegistryIdle
    /\ CacheIdle
    /\ ExtIdle

ParseSpecInit ==
    /\ ParseInit
    /\ cType = HelloController /\ appAuth = FALSE /\ cApp = Nil
    /\ cMiddleware = <<>> /\ controllers = <<>> /\ routes = <<WelcomeRoute>>
    /\ bindMw = << <<>> >> /\ bindGroup = << <<>> >> /\ serving = FALSE
    /\ gMiddleware = <<>> /\ gControllers = <<>>
    /\ limiter = <<>> /\ now = 0 /\ crashed = FALSE
    /\ last = NoRequest
    /\ tm = TmInit
    /\ RegistryIdle
    /\ CacheIdle
    /\ ExtIdle

ParseNext == Parse /\ UNCHANGED appVars /\ UNCHANGED otherVars

SpecParse == ParseSpecInit /\ [][ParseNext]_vars

----------------------------------------------------------------------------
(* Timeout, step by step: done := make(chan error); go func() { done <-
   next(ctx) }(); select { case err := <-done; case <-time.After(duration) } *)

\* the cases of the select that can proceed, mutated: the timer's channel
\* delivers as soon as the timer is armed
ReadyCasesNoWait(c) ==
    (IF c.inner = "sending" THEN {"done"} ELSE {})
    \cup (IF c.timer \in {"armed", "fired"} THEN {"timer"} ELSE {})

\* the cases of the select that can proceed: done when the goroutine is at
\* its send, the timer's channel when the timer has fired
ReadyCases(c) ==
    (IF c.inner = "sending" THEN {"done"} ELSE {})
    \cup (IF c.timer = "fired" THEN {"timer"} ELSE {})

\* an event is recorded in order while the wrapper has not returned
Note(c, e) == IF c.wrapper = "returned" THEN c.order ELSE Append(c.order, e)

TmUnchanged ==
    UNCHANGED <<parseVars, cType, appAuth, cApp, cMiddleware, controllers,
                routes, bindMw, bindGroup, serving, groupVars, limiter, now,
                last, registryVars, cacheVars, extVars>>

\* the wrapper is called: it makes done and starts the goroutine
TimeoutCall(r) ==
    /\ ~crashed
    /\ tm[r].wrapper = "idle"
    /\ tm' = [tm EXCEPT ![r].wrapper = "spawned", ![r].inner = "running"]
    /\ UNCHANGED crashed
    /\ TmUnchanged

\* the wrapper enters the select: time.After(duration) arms the timer
TimeoutSelect(r) ==
    /\ ~crashed
    /\ tm[r].wrapper = "spawned"
    /\ tm' = [tm EXCEPT ![r].wrapper = "selecting", ![r].timer = "armed"]
    /\ UNCHANGED crashed
    /\ TmUnchanged

\* next(ctx) returns on the goroutine, mutated: done has room for one value,
\* so the send completes and the goroutine exits when the wrapper has gone
InnerReturnBuffered(r, out) ==
    /\ ~crashed
    /\ tm[r].inner = "running"
    /\ tm' = [tm EXCEPT ![r].inner = IF tm[r].wrapper = "returned"
                                     THEN "exited" ELSE "sending",
                        ![r].innerRet = out,
                        ![r].order = Note(tm[r], "inner")]
    /\ UNCHANGED crashed
    /\ TmUnchanged

\* next(ctx) returns on the goroutine, which goes on to send on done
InnerReturn(r, out) ==
    /\ ~crashed
    /\ tm[r].inner = "running"
    /\ tm' = [tm EXCEPT ![r].inner = "sending", ![r].innerRet = out,
                        ![r].order = Note(tm[r], "inner")]
    /\ UNCHANGED crashed
    /\ TmUnchanged

\* next(ctx) panics on the goroutine: nothing recovers there
InnerPanic(r) ==
    /\ ~crashed
    /\ tm[r].inner = "running"
    /\ tm' = [tm EXCEPT ![r].inner = "panicked"]
    /\ crashed' = TRUE
    /\ TmUnchanged

\* the timer fires
TimerFire(r) ==
    /\ ~crashed
    /\ tm[r].timer = "armed"
    /\ tm' = [tm EXCEPT ![r].timer = "fired",
                        ![r].order = Note(tm[r], "timer")]
    /\ UNCHANGED crashed
    /\ TmUnchanged

\* the select takes one of the cases that can proceed and the wrapper returns
SelectTake(r) ==
    /\ ~crashed
    /\ tm[r].wrapper = "selecting"
    /\ \E c \in ReadyCases(tm[r]) :
           tm' = IF c = "done"
                 THEN [tm EXCEPT ![r].wrapper = "returned",
                                 ![r].ret = tm[r].innerRet,
                                 ![r].inner = "exited"]
                 ELSE [tm EXCEPT ![r].wrapper = "returned",
                                 ![r].ret = RetErr(TimeoutError)]
    /\ UNCHANGED crashed
    /\ TmUnchanged

TimeoutNext ==
    \E r \in TimeoutCalls :
        \/ TimeoutCall(r)
        \/ TimeoutSelect(r)
        \/ \E out \in { RetNil, RetErr(OpError) } : InnerReturn(r, out)
        \/ InnerPanic(r)
        \/ TimerFire(r)
        \/ SelectTake(r)

SpecTimeout == IdleInit /\ [][TimeoutNext]_vars

----------------------------------------------------------------------------
(* RegisterController, step by step, on several goroutines, and
   GenerateOpenAPI reading the registry *)

\* app.mu.Lock() can return, mutated: the lock is not taken
CanLockNoMutex(m) == TRUE

\* app.mu.Lock() can return: no writer and no reader holds app.mu
CanLock(m) == m.w = 0 /\ m.r = 0

RcUnchanged ==
    UNCHANGED <<parseVars, cType, appAuth, cApp, cMiddleware, serving,
                groupVars, limiter, now, crashed, last, tm, cacheVars,
                extVars>>

\* app.mu.Lock()
RCLock(g) ==
    /\ rc[g].pc = "idle"
    /\ CanLock(mu)
    /\ mu' = [mu EXCEPT !.w = g]
    /\ rc' = [rc EXCEPT ![g].pc = "locked"]
    /\ rcCalls' = Append(rcCalls, g)
    /\ UNCHANGED <<controllers, routes, bindMw, bindGroup, api>>
    /\ RcUnchanged

\* c.SetApplication(app)
RCSetApplication(g) ==
    /\ rc[g].pc = "locked"
    /\ rc' = [rc EXCEPT ![g].pc = "appSet", ![g].app = TheApp]
    /\ UNCHANGED <<mu, rcCalls, controllers, routes, bindMw, bindGroup, api>>
    /\ RcUnchanged

\* append(app.controllers, controller): the slice is read
RCRead(g) ==
    /\ rc[g].pc = "appSet"
    /\ rc' = [rc EXCEPT ![g].pc = "read", ![g].local = controllers]
    /\ UNCHANGED <<mu, rcCalls, controllers, routes, bindMw, bindGroup, api>>
    /\ RcUnchanged

\* app.controllers = append(...): the extended slice is stored
RCAppend(g) ==
    /\ rc[g].pc = "read"
    /\ controllers' = Append(rc[g].local, ControllerOf(g))
    /\ rc' = [rc EXCEPT ![g].pc = "appended"]
    /\ UNCHANGED <<mu, rcCalls, routes, bindMw, bindGroup, api>>
    /\ RcUnchanged

\* the loop over the methods: the bindings go to the router
RCRoutes(g) ==
    /\ rc[g].pc = "appended"
    /\ LET new == RegisterControllerRoutes(ControllerOf(g))
       IN  /\ routes' = routes \o new
           /\ bindMw' = bindMw \o [i \in 1..Len(new) |-> <<>>]
           /\ bindGroup' = bindGroup \o [i \in 1..Len(new) |-> <<>>]
    /\ rc' = [rc EXCEPT ![g].pc = "registered"]
    /\ UNCHANGED <<mu, rcCalls, controllers, api>>
    /\ RcUnchanged

\* the deferred app.mu.Unlock()
RCUnlock(g) ==
    /\ rc[g].pc = "registered"
    /\ mu' = [mu EXCEPT !.w = 0]
    /\ rc' = [rc EXCEPT ![g].pc = "done"]
    /\ UNCHANGED <<rcCalls, controllers, routes, bindMw, bindGroup, api>>
    /\ RcUnchanged

\* GenerateOpenAPI: app.mu.RLock(); the range evaluates app.controllers
APIRLock ==
    /\ api.pc = "idle"
    /\ mu.w = 0
    /\ mu' = [mu EXCEPT !.r = @ + 1]
    /\ api' = [pc |-> "reading", seen |-> controllers]
    /\ UNCHANGED <<rc, rcCalls, controllers, routes, bindMw, bindGroup>>
    /\ RcUnchanged

\* GenerateOpenAPI: the deferred app.mu.RUnlock()
APIRUnlock ==
    /\ api.pc = "reading"
    /\ mu' = [mu EXCEPT !.r = @ - 1]
    /\ api' = [api EXCEPT !.pc = "idle"]
    /\ UNCHANGED <<rc, rcCalls, controllers, routes, bindMw, bindGroup>>
    /\ RcUnchanged

RegistryNext ==
    \/ \E g \in Goroutines :
           \/ RCLock(g)
           \/ RCSetApplication(g)
           \/ RCRead(g)
           \/ RCAppend(g)
           \/ RCRoutes(g)
           \/ RCUnlock(g)
    \/ APIRLock
    \/ APIRUnlock

SpecRegistry == IdleInit /\ [][RegistryNext]_vars

----------------------------------------------------------------------------
(* The cache plugin as a machine *)

CacheUnchanged ==
    UNCHANGED <<parseVars, cType, appAuth, cApp, cMiddleware, controllers,
                routes, bindMw, bindGroup, serving, groupVars, limiter,
                crashed, last, tm, registryVars, extVars>>

\* the clock advances
Tick ==
    /\ now' = now + 1
    /\ cacheLast' = NoGet
    /\ UNCHANGED <<store, cacheCalls>>
    /\ CacheUnchanged

\* cache.Set(ctx, key, value, ttl)
Set(key, value, ttl, ok) ==
    /\ \E r \in {CacheSet(store, key, value, ttl, now, ok)} :
           /\ store' = r.db
           /\ cacheCalls' =
                [cacheCalls EXCEPT
                   ![key].latest = [NoCall EXCEPT !.op = "set",
                                                  !.value = value,
                                                  !.err = r.err],
                   ![key].stored = IF r.err = ""
                                   THEN [NoCall EXCEPT !.op = "set",
                                                       !.value = value,
                                                       !.at = now,
                                                       !.ttl = ttl]
                                   ELSE @]
    /\ cacheLast' = NoGet
    /\ UNCHANGED now
    /\ CacheUnchanged

\* cache.Get(ctx, key, &target)
Get(key, target, ok) ==
    /\ \E r \in {CacheGet(store, key, target, now, ok)} :
           cacheLast' = [NoGet EXCEPT !.op = "get", !.key = key,
                                      !.target = target, !.err = r.err,
                                      !.value = r.value]
    /\ UNCHANGED <<store, cacheCalls, now>>
    /\ CacheUnchanged

\* cache.Delete(ctx, key)
Delete(key, ok) ==
    /\ \E r \in {CacheDelete(store, key, ok)} :
           /\ store' = r.db
           /\ cacheCalls' =
                [cacheCalls EXCEPT
                   ![key].latest = [NoCall EXCEPT !.op = "delete",
                                                  !.err = r.err],
                   ![key].stored = IF r.err = "" THEN NoCall ELSE @]
    /\ cacheLast' = NoGet
    /\ UNCHANGED now
    /\ CacheUnchanged

CacheNext ==
    \/ (now < MaxTime /\ Tick)
    \/ \E key \in CacheKeys, ttl \in {0, 1}, ok \in BOOLEAN,
          value \in { GoValue("string", <<"a">>), GoValue("int", 7),
                      GoValue("chan", 0) } :
           Set(key, value, ttl, ok)
    \/ \E key \in CacheKeys, target \in {"string", "any"}, ok \in BOOLEAN :
           Get(key, target, ok)
    \/ \E key \in CacheKeys, ok \in BOOLEAN : Delete(key, ok)

SpecCache == IdleInit /\ [][CacheNext]_vars

\* cache.GetOrSet(ctx, key, &target, ttl, fn), not overlapping any other call
\* on the key
GetOrSet(key, target, ttl, fn, okGet, okSet) ==
    /\ \E r \in {CacheGetOrSet(store, key, target, ttl, fn, now, okGet, okSet)} :
           /\ store' = r.db
           /\ cacheCalls' =
                IF r.db = store
                THEN cacheCalls
                ELSE [cacheCalls EXCEPT
                        ![key].latest = [NoCall EXCEPT !.op = "set",
                                                       !.value = fn.value],
                        ![key].stored = [NoCall EXCEPT !.op = "set",
                                                       !.value = fn.value,
                                                       !.at = now,
                                                       !.ttl = ttl]]
           /\ cacheLast' = [op |-> "getorset", key |-> key, target |-> target,
                            err |-> r.err, value |-> r.value, fn |-> fn,
                            fnCalls |-> r.fnCalls, before |-> store,
                            prior |-> cacheCalls[key].stored]
    /\ UNCHANGED now
    /\ CacheUnchanged

GetOrSetNext ==
    \/ (now < MaxTime /\ Tick)
    \/ \E ok \in BOOLEAN : Delete(<<"k">>, ok)
    \/ \E target \in {"string", "any"}, ttl \in {0, 1},
          okGet \in BOOLEAN, okSet \in BOOLEAN,
          fn \in { [err |-> "", value |-> GoValue("string", <<"a">>)],
                   [err |-> "", value |-> GoValue("string", <<"b">>)],
                   [err |-> "", value |-> GoValue("int", 7)],
                   [err |-> "", value |-> GoValue("chan", 0)],
                   [err |-> "fn failed", value |-> ZeroValue] } :
           GetOrSet(<<"k">>, target, ttl, fn, okGet, okSet)

SpecGetOrSet == IdleInit /\ [][GetOrSetNext]_vars

----------------------------------------------------------------------------
(* RateLimit as a machine: requests one after the other *)

\* a request with key KeyFunc(ctx) = key passes the RateLimit handler
RateRequest(key) ==
    /\ \E r \in {RateLimitStep(limiter, key, now)} :
           /\ limiter' = r.data
           /\ rlLog' = [fwd |-> IF r.forward
                                THEN [rlLog.fwd EXCEPT ![key] = Append(@, now)]
                                ELSE rlLog.fwd,
                        last |-> [key |-> key, at |-> now,
                                  forward |-> r.forward,
                                  prior |-> rlLog.fwd[key]]]
    /\ UNCHANGED <<parseVars, cType, appAuth, cApp, cMiddleware, controllers,
                   routes, bindMw, bindGroup, serving, groupVars, now, crashed,
                   last, tm, registryVars, cacheVars, rlClients, rlG, jq,
                   sd>>

RateNext ==
    \/ (now < MaxRateTime /\ Tick)
    \/ \E key \in RateKeys : RateRequest(key)

SpecRate == IdleInit /\ [][RateNext]_vars

----------------------------------------------------------------------------
(* RateLimit as a machine: concurrent requests with one key at one time *)

TheKey == "10.0.0.1"

RateConcUnchanged ==
    UNCHANGED <<parseVars, appVars, tm, registryVars, cacheVars, rlLog, jq,
                sd>>

\* clients.data[key] as an index, 0 when the key has no record
ClientOf(cl) == IF TheKey \in DOMAIN cl.data THEN cl.data[TheKey] ELSE 0

\* the section under clients.mu.Lock(), mutated: the record is created
\* without looking again
ClientUnderLockNoRecheck(cl) ==
    LET rec == [windows |-> <<>>, lastAccessed |-> 0, mu |-> 0]
    IN  [data |-> [k \in {TheKey} |-> Len(cl.recs) + 1],
         recs |-> Append(cl.recs, rec), mu |-> cl.mu]

\* the section under clients.mu.Lock(): look again, create the record when
\* the key still has none
ClientUnderLock(cl) ==
    LET rec == [windows |-> <<>>, lastAccessed |-> 0, mu |-> 0]
    IN  IF ClientOf(cl) # 0
        THEN cl
        ELSE [data |-> [k \in {TheKey} |-> Len(cl.recs) + 1],
              recs |-> Append(cl.recs, rec), mu |-> cl.mu]

\* clients.mu.RLock(); c, exists := clients.data[key]; clients.mu.RUnlock()
RLLookup(g) ==
    /\ rlG[g].pc = "idle"
    /\ rlClients.mu = 0
    /\ rlG' = [rlG EXCEPT ![g].c = ClientOf(rlClients),
                          ![g].pc = IF ClientOf(rlClients) = 0
                                    THEN "missing" ELSE "found"]
    /\ UNCHANGED rlClients
    /\ RateConcUnchanged

\* if !exists { clients.mu.Lock()
RLLock(g) ==
    /\ rlG[g].pc = "missing"
    /\ rlClients.mu = 0
    /\ rlClients' = [rlClients EXCEPT !.mu = g]
    /\ rlG' = [rlG EXCEPT ![g].pc = "locked"]
    /\ RateConcUnchanged

\* the second look, the creation of the record, clients.mu.Unlock()
RLCreate(g) ==
    /\ rlG[g].pc = "locked"
    /\ \E cl \in {ClientUnderLock(rlClients)} :
           /\ rlClients' = [cl EXCEPT !.mu = 0]
           /\ rlG' = [rlG EXCEPT ![g].c = ClientOf(cl), ![g].pc = "found"]
    /\ RateConcUnchanged

\* c.mu.Lock()
RLEnter(g) ==
    /\ rlG[g].pc = "found"
    /\ rlClients.recs[rlG[g].c].mu = 0
    /\ rlClients' = [rlClients EXCEPT !.recs[rlG[g].c].mu = g]
    /\ rlG' = [rlG EXCEPT ![g].pc = "entered"]
    /\ RateConcUnchanged

\* the rest of the handler under c.mu: prune, count, reject or update and
\* call next(ctx); the deferred c.mu.Unlock()
RLServe(g) ==
    /\ rlG[g].pc = "entered"
    /\ LET c == rlG[g].c
           rec == rlClients.recs[c]
       IN  \E r \in {RateLimitStep([k \in {TheKey} |->
                                      [windows |-> rec.windows,
                                       lastAccessed |-> rec.lastAccessed]],
                                   TheKey, now)} :
               /\ rlClients' =
                    [rlClients EXCEPT
                       !.recs[c] = [windows |-> r.data[TheKey].windows,
                                    lastAccessed |-> r.data[TheKey].lastAccessed,
                                    mu |-> 0]]
               /\ rlG' = [rlG EXCEPT ![g].pc = "done",
                                     ![g].forward = r.forward]
    /\ RateConcUnchanged

RateConcNext ==
    \E g \in Goroutines :
        \/ RLLookup(g) \/ RLLock(g) \/ RLCreate(g) \/ RLEnter(g) \/ RLServe(g)

SpecRateConc == IdleInit /\ [][RateConcNext]_vars

----------------------------------------------------------------------------
(* The queue as a machine: Enqueue, the loop of processJobs, Stop *)

\* q.Enqueue(jobType, data, maxRetries): the job data is stored under its new
\* id and the id is pushed on the left of the list
Enqueue(jobType, maxRetries) ==
    /\ LET id == Len(jq.enqueued) + 1
           job == [Type |-> jobType, Attempts |-> 0, MaxRetries |-> maxRetries]
       IN  jq' = [jq EXCEPT
                    !.jobs = [x \in DOMAIN jq.jobs \cup {id} |->
                                IF x = id THEN job ELSE jq.jobs[x]],
                    !.queue = <<id>> \o jq.queue,
                    !.enqueued = Append(jq.enqueued, job)]
    /\ UNCHANGED <<parseVars, appVars, tm, registryVars, cacheVars, rlLog,
                   rlClients, rlG, sd>>

\* one round of the loop of processJobs with a job id in the list: the id is
\* popped on the right, the job data is read, the handler registered for the
\* job's type (there is one for "mail") is called and returns nil (ok) or an
\* error, a failed job is pushed again while its Attempts is below
\* MaxRetries, and the job data is deleted
ProcessJob(ok) ==
    /\ ~jq.cancelled
    /\ jq.queue # <<>>
    /\ LET id == jq.queue[Len(jq.queue)]
           rest == SubSeq(jq.queue, 1, Len(jq.queue) - 1)
       IN  IF id \notin DOMAIN jq.jobs
           THEN jq' = [jq EXCEPT !.queue = rest]
           ELSE LET job == jq.jobs[id]
                    ran == job.Type = "mail"
                    attempts == IF ran /\ ~ok THEN job.Attempts + 1
                                ELSE job.Attempts
                    requeue == ran /\ ~ok /\ attempts < job.MaxRetries
                IN  jq' = [jq EXCEPT
                             !.queue = IF requeue THEN <<id>> \o rest ELSE rest,
                             !.jobs = [x \in DOMAIN jq.jobs \ {id} |-> jq.jobs[x]],
                             !.runs[id] =
                                IF ran
                                THEN Append(@, [Attempts |-> job.Attempts,
                                                ok |-> ok])
                                ELSE @]
    /\ UNCHANGED <<parseVars, appVars, tm, registryVars, cacheVars, rlLog,
                   rlClients, rlG, sd>>

\* q.Stop(): the context is cancelled and the loop returns on its next round
QueueStop ==
    /\ ~jq.cancelled
    /\ jq' = [jq EXCEPT !.cancelled = TRUE]
    /\ UNCHANGED <<parseVars, appVars, tm, registryVars, cacheVars, rlLog,
                   rlClients, rlG, sd>>

QueueNext ==
    \/ \E jobType \in {"mail", "other"}, maxRetries \in 0..3 :
           (Len(jq.enqueued) < MaxJobs /\ Enqueue(jobType, maxRetries))
    \/ \E ok \in BOOLEAN : ProcessJob(ok)
    \/ QueueStop

SpecQueue == IdleInit /\ [][QueueNext]_vars

----------------------------------------------------------------------------
(* Application.Shutdown as a machine *)

\* Shutdown, mutated: a failure to unload the plugins is not returned
ShutdownStepsKeepGoing(has, ok) ==
    LET s1 == IF has.queue THEN <<"queue.Stop">> ELSE <<>>
        s2 == IF has.plugins THEN Append(s1, "plugins.UnloadPlugins") ELSE s1
        s3 == IF has.database THEN Append(s2, "database.Close") ELSE s2
        s4 == Append(s3, "server.Shutdown")
    IN  CASE has.database /\ ~ok.database ->
                [steps |-> s3, err |-> "failed to close database"]
          [] OTHER ->
                [steps |-> s4, err |-> IF ok.server THEN "" ELSE "server"]

\* Shutdown: the steps it performs and the error it returns, for an
\* application that has (non-nil) the components of has, when its steps
\* succeed as ok tells
ShutdownSteps(has, ok) ==
    LET s1 == IF has.queue THEN <<"queue.Stop">> ELSE <<>>
        s2 == IF has.plugins THEN Append(s1, "plugins.UnloadPlugins") ELSE s1
        s3 == IF has.database THEN Append(s2, "database.Close") ELSE s2
        s4 == Append(s3, "server.Shutdown")
    IN  CASE has.plugins /\ ~ok.plugins ->
                [steps |-> s2, err |-> "failed to unload plugins"]
          [] has.database /\ ~ok.database ->
                [steps |-> s3, err |-> "failed to close database"]
          [] OTHER ->
                [steps |-> s4, err |-> IF ok.server THEN "" ELSE "server"]

\* app.Shutdown() on an application with the components of has
Shutdown(has, ok) ==
    /\ sd.calls = <<>> \/ sd.has = has
    /\ \E r \in {ShutdownSteps(has, ok)} :
           sd' = [has |-> has,
                  calls |-> Append(sd.calls, [ok |-> ok, steps |-> r.steps,
                                              err |-> r.err])]
    /\ jq' = [jq EXCEPT !.cancelled = @ \/ has.queue]
    /\ UNCHANGED <<parseVars, appVars, tm, registryVars, cacheVars, rlLog,
                   rlClients, rlG>>

ShutdownNext ==
    \E has \in [queue : BOOLEAN, plugins : BOOLEAN, database : BOOLEAN],
       ok \in [plugins : BOOLEAN, database : BOOLEAN, server : BOOLEAN] :
        (Len(sd.calls) < MaxShutdowns /\ Shutdown(has, ok))

SpecShutdown == IdleInit /\ [][ShutdownNext]_vars

----------------------------------------------------------------------------
(* Properties of the parser *)

\* the action with a hyphen before every upper-case letter but the first
RECURSIVE RefHyphenate(_)
RefHyphenate(a) ==
    IF Len(a) <= 1 THEN a
    ELSE LET init == SubSeq(a, 1, Len(a) - 1)
             c == a[Len(a)]
         IN  RefHyphenate(init) \o (IF IsUpperASCII(c) THEN <<"-", c>> ELSE <<c>>)

RefSeg(a) == ToLower(RefHyphenate(a))

RefHasById(seg) ==
    \E i \in 0..(Len(seg) - 5) : \A k \in 1..5 : seg[i + k] = ByIdStr[k]

RefPath(base, a) ==
    LET seg == RefSeg(a)
    IN  IF seg = <<>> \/ seg = IndexStr THEN base
        ELSE IF RefHasById(seg) THEN base \o IdParam
        ELSE base \o Slash \o seg

Parsed == pRoute # NoRoute

PostToken == <<"P","o","s","t">>
DeleteToken == <<"D","e","l","e","t","e">>
GetToken == <<"G","e","t">>
POST == <<"P","O","S","T">>
PUT == <<"P","U","T">>
DELETE == <<"D","E","L","E","T","E">>

C4_BothIdSpellingsGiveIdRoute ==
    (Parsed /\ pBase = UserPath /\ pToken = GetToken
       /\ pAction \in { <<"U","s","e","r","B","y","I","D">>, <<"U","s","e","r","B","y","I","d">> })
    => pRoute = [HTTPMethod |-> GET, Path |-> UserPath \o IdParam]

\* the tokens that are a prefix of the name after Handle, by position
PrefixTokens(rest) ==
    { k \in 1..Len(MethodTokens) : HasPrefix(rest, MethodTokens[k]) }

FirstPrefixToken(rest) ==
    CHOOSE k \in PrefixTokens(rest) : \A j \in PrefixTokens(rest) : k <= j

\* C11: the HTTP method is the upper-cased first token of Get, Post, Put,
\* Delete, Patch, Options, Head that is a prefix of the name after Handle, and
\* GET when none is; exactly that one token is stripped before the path is
\* derived; the method is always one of the seven.
C11_MethodIsFirstPrefixToken ==
    Parsed =>
        LET rest == pToken \o pAction
        IN  /\ pRoute.HTTPMethod \in HTTPMethods
            /\ PrefixTokens(rest) = {}
                  => /\ pRoute.HTTPMethod = GET
                     /\ pRoute.Path = RefPath(pBase, rest)
            /\ PrefixTokens(rest) # {}
                  => LET tok == MethodTokens[FirstPrefixToken(rest)]
                     IN  /\ pRoute.HTTPMethod = ToUpper(tok)
                         /\ pRoute.Path =
                               RefPath(pBase, SubSeq(rest, Len(tok) + 1, Len(rest)))

\* HandleGetPostUser on /user: GET /user/post-user, the second token stays
C11_Witness ==
    /\ Parsed
    /\ pToken = GetToken /\ pAction = <<"P","o","s","t","U","s","e","r">> /\ pBase = UserPath
    /\ pRoute = [HTTPMethod |-> GET, Path |-> <<"/","u","s","e","r","/","p","o","s","t","-","u","s","e","r">>]

\* a name with the Handle marker, something after it, and no method token
Malformed ==
    /\ Parsed /\ pToken = <<>> /\ pAction # <<>>
    /\ PrefixTokens(pAction) = {}

\* C12 as stated: a name with the Handle marker but no HTTP-method token, such
\* as HandleFoo, is resolved to GET on exactly the controller's base path.
C12_MalformedGivesBasePath ==
    Malformed => pRoute = [HTTPMethod |-> GET, Path |-> pBase]

\* C12 amended: such a name is resolved to GET, and its path is derived from
\* what follows Handle as for any operation: the base path for Index, base
\* + "/:id" when the hyphenated name contains by-id, base + "/" + the
\* hyphenated lower-cased name otherwise.
C12_MalformedGivesGetOnDerivedPath ==
    Malformed => pRoute = [HTTPMethod |-> GET, Path |-> RefPath(pBase, pAction)]

C12_Witness ==
    /\ Malformed
    /\ pAction = <<"F","o","o">> /\ pBase = UserPath
    /\ pRoute = [HTTPMethod |-> GET, Path |-> <<"/","u","s","e","r","/","f","o","o">>]

----------------------------------------------------------------------------
(* Properties of registration and dispatch *)

Registered == Len(controllers) > 0

OpCall == <<"op", "call">>

\* the position of the first call of the operation in a trace, 0 when none
FirstOpCall(trace) ==
    IF \E i \in 1..Len(trace) : trace[i] = OpCall
    THEN CHOOSE i \in 1..Len(trace) :
            trace[i] = OpCall /\ \A j \in 1..(i - 1) : trace[j] # OpCall
    ELSE 0

IsPre(e) == e[2] = "pre"

\* the wrappers entered before the operation was first called, in order
EnteredBeforeOp(trace) ==
    LET pres == SelectSeq(SubSeq(trace, 1, FirstOpCall(trace)), IsPre)
    IN  [i \in 1..Len(pres) |-> pres[i][1]]

ServedBy(kind) == last.route > 0 /\ last.kind = kind

\* the bindings installed by RegisterController, as (name, method, path)
RegisteredRoutes ==
    { <<routes[i].name, routes[i].method, routes[i].path>> :
          i \in { j \in 1..Len(routes) : routes[j].kind = "createHandlerFunc" } }

\* C5: for HelloController with HandleGetHello, after RegisterController a
\* GET /hello request is dispatched to that operation and answers 200 with
\* the operation's body.
C5_HelloAnswers200 ==
    (cType = HelloController /\ Registered /\ last.req = Req(GET, HelloPath))
    => /\ last.status = 200
       /\ last.calls = 1
       /\ routes[last.route].name = HandleGetHello

\* C6: for UserController RegisterController derives exactly the documented
\* routes: HandleGetUsers -> GET /user, HandlePostUser -> POST /user,
\* HandlePutUserById -> PUT /user/:id, HandleDeleteUser -> DELETE /user,
\* HandleGetUserPosts -> GET /user/posts.
C6_DocumentedUserRoutes ==
    (cType = UserController /\ Registered)
    => RegisteredRoutes =
         { <<HandleGetUsers, GET, UserPath>>,
           <<HandlePostUser, POST, UserPath>>,
           <<HandlePutUserById, PUT, UserPath \o IdParam>>,
           <<HandleDeleteUser, DELETE, UserPath>>,
           <<HandleGetUserPosts, GET, UserPath \o <<"/","p","o","s","t","s">>>> }

\* the number of bindings RegisterController made for the method named m
BindingsOf(m) ==
    Cardinality({ i \in 1..Len(routes) :
                    routes[i].kind = "createHandlerFunc" /\ routes[i].name = m })

\* C13: RegisterController registers with the router exactly once per call
\* every method whose name starts with Handle, and never a method whose name
\* does not; no Handle method is left unregistered.
C13_EachHandleMethodRegisteredOnce ==
    /\ \A k \in 1..Len(Methods(cType)) :
           LET m == Methods(cType)[k]
           IN  BindingsOf(m) = IF HasPrefix(m, Handle) THEN Len(controllers) ELSE 0
    /\ \A i \in 1..Len(routes) :
           routes[i].kind = "createHandlerFunc"
             => \E k \in 1..Len(Methods(cType)) : routes[i].name = Methods(cType)[k]

C13_Witness ==
    /\ cType = UserController /\ Len(controllers) = 2
    /\ BindingsOf(HandleDeleteUser) = 2
    /\ BindingsOf(<<"S","e","t","A","p","p","l","i","c","a","t","i","o","n">>) = 0

\* C14: route-table keys are unique per (method, path): two operations that
\* derive the same pair are a fatal registration error, the two bindings are
\* never both installed.
C14_NoTwoBindingsShareAKey ==
    \A i, j \in 1..Len(routes) :
        i # j => <<routes[i].method, routes[i].path>>
                   # <<routes[j].method, routes[j].path>>

IsPrefixOf(a, b) == Len(a) <= Len(b) /\ SubSeq(b, 1, Len(a)) = a

\* C15: the route table is append-only, and once Start, Listen or Serve has
\* been called no binding is added, replaced or removed.
C15_RouteTableFrozenOnceServing ==
    [][/\ IsPrefixOf(routes, routes')
       /\ (serving => routes' = routes)]_vars

\* C17: the Context of every request dispatched to a route bound by
\* RegisterController has App() equal to the registering Application, never
\* nil; and after RegisterController the controller's App() is that
\* Application.
C17_ContextCarriesApplication ==
    /\ ServedBy("createHandlerFunc") => last.ctxApp = TheApp
    /\ Registered => cApp = TheApp

\* C19: for a controller that embeds forge.Controller, added to a group after
\* the group's Use and registered with the group's Register, every request to
\* one of its routes executes the group's middleware before the operation.
C19_GroupMiddlewareRuns ==
    (ServedBy("createHandlerFunc") /\ cType # BareController /\ last.calls > 0)
    => LET g == bindGroup[last.route]
           entered == EnteredBeforeOp(last.trace)
       IN  /\ Len(g) <= Len(entered)
           /\ SubSeq(entered, Len(entered) - Len(g) + 1, Len(entered)) = g

----------------------------------------------------------------------------
(* Properties of the middleware chain *)

\* C2: after Use(m1..mn) and RegisterController, every request dispatched to
\* a route that RegisterController bound executes m1..mn before the
\* operation is invoked.
C2_RegisteredRoutesRunMiddleware ==
    (ServedBy("createHandlerFunc") /\ last.calls > 0)
    => EnteredBeforeOp(last.trace) = bindMw[last.route]

AuthChain == <<"RequestLogger", "RequireAuth", "RateLimit">>

AuthRejected == last.authErr # NoVal

AuthRejectionIsIsolated ==
    /\ \A i \in 1..Len(last.trace) : last.trace[i][1] # "RateLimit"
    /\ limiter = last.before
    /\ last.calls = 0
    /\ last.logged = << RetErr(last.authErr) >>
    /\ last.ret = RetErr(last.authErr)

Contains1(seq, x) == \E i \in 1..Len(seq) : seq[i] = x

\* C8: in every chain of the built-in wrappers with Recover installed, also
\* with Timeout between Recover and the operation, a panic raised inside the
\* operation becomes an error returned by the chain (an AppError with status
\* 500 when the panic value is no error) and the process keeps serving.
C8_RecoverContainsPanics ==
    (ServedBy("registerRoute") /\ Contains1(last.mws, "Recover")
       /\ last.ctxApp # Nil /\ last.calls > 0
       /\ last.op \in {"panicErr", "panicVal"})
    => /\ ~crashed
       /\ last.ret.kind = "err"
       /\ (last.op = "panicVal"
             => last.ret.val = NewAppError("Internal Server Error", 500))

ChainTrace(i, in, mws) ==
    ServeRoute(routes[i], in, cApp, mws, appAuth, limiter, now).st.trace

----------------------------------------------------------------------------
(* Properties of Timeout *)

Returned(r) == tm[r].wrapper = "returned"

\* which of the two events came first before the wrapper returned
FirstEvent(r) == IF tm[r].order = <<>> THEN "none" ELSE tm[r].order[1]

Happened(r, e) == \E i \in 1..Len(tm[r].order) : tm[r].order[i] = e

\* the goroutine of next was neither waited for nor stopped
InnerAbandoned(r) == tm[r].inner \in {"running", "sending", "panicked"}

\* C16 as stated: when the inner handler returns before the timer fires the
\* wrapper returns exactly the inner handler's result; when the timer fires
\* first it returns the timeout error (Request timeout, 408) without waiting
\* for the inner handler, which is not cancelled.
C16_FirstEventDecides ==
    \A r \in TimeoutCalls :
        Returned(r) =>
            /\ FirstEvent(r) = "inner" => tm[r].ret = tm[r].innerRet
            /\ FirstEvent(r) = "timer"
                 => tm[r].ret = RetErr(TimeoutError) /\ InnerAbandoned(r)

\* C16 amended: the wrapper returns exactly the inner handler's result when
\* it returns before the timer has fired, and the timeout error, without
\* waiting for the inner handler, which is not cancelled, when it returns
\* before the inner handler has returned; when both have happened before the
\* select takes a case, it returns either the inner result or the timeout
\* error.
C16_ReturnsWhatCanProceed ==
    \A r \in TimeoutCalls :
        Returned(r) =>
            /\ ~Happened(r, "timer")
                 => Happened(r, "inner") /\ tm[r].ret = tm[r].innerRet
            /\ ~Happened(r, "inner")
                 => tm[r].ret = RetErr(TimeoutError) /\ InnerAbandoned(r)
            /\ tm[r].ret \in {tm[r].innerRet, RetErr(TimeoutError)}
            /\ tm[r].ret = RetErr(TimeoutError) => InnerAbandoned(r)

\* the timer fired while next was still running; the wrapper returned the
\* timeout error and next returned afterwards, its send never taken
C16_Witness ==
    \E r \in TimeoutCalls :
        /\ Returned(r) /\ tm[r].order = <<"timer">>
        /\ tm[r].ret = RetErr(TimeoutError)
        /\ tm[r].inner = "sending" /\ tm[r].innerRet = RetErr(OpError)

\* C26 as stated: when the timer fires before the inner handler returns, the
\* goroutine that runs the inner handler never terminates.
C26_TimerFirstLeaksGoroutine ==
    \A r \in TimeoutCalls :
        FirstEvent(r) = "timer" => tm[r].inner # "exited"

\* C26 amended: when the select takes the timer's case, so that the wrapper
\* returns the timeout error, the goroutine that runs the inner handler
\* never terminates: once the inner handler has returned it stays blocked on
\* its send on done, which nothing receives.  (When the timer fires first but
\* the inner handler reaches its send before the select takes a case, the
\* select may take the result and the goroutine exits.)
C26_TimedOutCallLeaksGoroutine ==
    /\ [](\A r \in TimeoutCalls :
            (Returned(r) /\ tm[r].ret = RetErr(TimeoutError))
                => tm[r].inner # "exited")
    /\ [][\A r \in TimeoutCalls :
            (Returned(r) /\ tm[r].ret = RetErr(TimeoutError)
                /\ tm[r].inner = "sending")
                => tm'[r].inner = "sending"]_vars

\* two calls timed out and both inner handlers have returned since: two
\* goroutines are blocked on their sends
C26_Witness ==
    \A r \in 1..2 :
        /\ Returned(r) /\ tm[r].ret = RetErr(TimeoutError)
        /\ tm[r].order = <<"timer">>
        /\ tm[r].inner = "sending"

----------------------------------------------------------------------------
(* Properties of the controller registry *)

HasAppended(g) == rc[g].pc \in {"appended", "registered", "done"}

\* the controllers of the calls that have appended, in the order of the calls
RECURSIVE AppendedInCallOrder(_)
AppendedInCallOrder(calls) ==
    IF calls = <<>> THEN <<>>
    ELSE (IF HasAppended(Head(calls)) THEN <<ControllerOf(Head(calls))>> ELSE <<>>)
         \o AppendedInCallOrder(Tail(calls))

InCriticalSection(g) == rc[g].pc \notin {"idle", "done"}

\* C18: every RegisterController call appends its controller exactly once to
\* the registry, in call order; the calls exclude each other, so after n
\* calls in any interleaving the registry holds exactly n entries.
C18_RegistryHoldsEveryCall ==
    /\ controllers = AppendedInCallOrder(rcCalls)
    /\ Len(controllers) = Cardinality({ g \in Goroutines : HasAppended(g) })
    /\ Cardinality({ g \in Goroutines : InCriticalSection(g) }) <= 1
    /\ \A g \in Goroutines : InCriticalSection(g) => mu.w = g /\ api.pc = "idle"

\* all calls are done, the last caller took the lock first
C18_Witness ==
    /\ \A g \in Goroutines : rc[g].pc = "done"
    /\ rcCalls[1] = MaxGoroutines
    /\ Len(controllers) = MaxGoroutines
    /\ controllers[1] = ControllerOf(MaxGoroutines)

----------------------------------------------------------------------------
(* Properties of the cache plugin *)

GetReturned == cacheLast.op = "get"

\* the store keys the plugin may touch
PluginKeys == { Prefix \o k : k \in CacheKeys }

OnlyPrefixedKeys ==
    /\ DOMAIN store \subseteq PluginKeys \cup {ForeignKey}
    /\ ForeignKey \in DOMAIN store /\ store[ForeignKey] = [data |-> <<"x">>, expireAt |-> 0]

\* C20 as stated, read in its favour (the latest call on the key returned
\* nil, Get's own command reached the server and its target has the value's
\* type): Get(key) returns the value of the most recent Set(key, v) that was
\* not followed by Delete(key), and forge.ErrNotFound when the key was never
\* set or was deleted after its last Set; only prefix+key is addressed.
C20_GetReturnsLatestSet ==
    /\ OnlyPrefixedKeys
    /\ (GetReturned /\ cacheLast.err # RedisError) =>
         LET c == cacheCalls[cacheLast.key].latest
         IN  CASE c.op = "set" /\ c.err = "" /\ cacheLast.target = c.value.kind ->
                    cacheLast.err = "" /\ cacheLast.value = c.value
               [] c.op = "delete" /\ c.err = "" -> cacheLast.err = ErrNotFound
               [] c.op = "none" -> cacheLast.err = ErrNotFound
               [] OTHER -> TRUE

\* what decoding the JSON form of value v into a target of a type yields: v
\* for a target of v's type, the string or the number as float64 for
\* interface{}, an error otherwise
Decoded(v, target) ==
    CASE target = v.kind -> [err |-> FALSE, value |-> v]
      [] target = "any" /\ v.kind = "string" -> [err |-> FALSE, value |-> v]
      [] target = "any" /\ v.kind = "int" ->
            [err |-> FALSE, value |-> GoValue("float64", v.v)]
      [] OTHER -> [err |-> TRUE, value |-> ZeroValue]

\* C20 amended: a Get(key, &target) whose command reaches the server decodes
\* into the target the JSON encoding of the value of the most recent
\* Set(key, v, ttl) that returned nil, was not followed by a Delete(key) that
\* returned nil and, for a positive ttl, is younger than ttl; the result is v
\* when the target has v's type, and a decoding error (not ErrNotFound) when
\* the target cannot hold it.  Get returns forge.ErrNotFound when there is no
\* such Set.  A Get whose command fails returns that error.  Only prefix+key
\* is addressed.
C20_GetReturnsLatestLiveSet ==
    /\ OnlyPrefixedKeys
    /\ GetReturned =>
         LET c == cacheCalls[cacheLast.key].stored
             live == c.op = "set" /\ (c.ttl = 0 \/ now < c.at + c.ttl)
             d == Decoded(c.value, cacheLast.target)
         IN  CASE cacheLast.err = RedisError -> cacheLast.value = ZeroValue
               [] live -> /\ cacheLast.err # ErrNotFound
                          /\ (cacheLast.err # "") = d.err
                          /\ cacheLast.value = d.value
               [] OTHER -> cacheLast.err = ErrNotFound

\* Set(k, 7), Set(k, "a"), Delete(k2): Get(k) into a string gives "a"
C20_Witness ==
    /\ GetReturned /\ cacheLast.key = <<"k">> /\ cacheLast.target = "string"
    /\ cacheCalls[<<"k">>].latest.op = "set"
    /\ cacheCalls[<<"k","2">>].latest.op = "delete"
    /\ cacheCalls[<<"k","2">>].latest.err = ""
    /\ cacheLast.err = "" /\ cacheLast.value = GoValue("string", <<"a">>)
    /\ Prefix \o <<"k">> \in DOMAIN store

----------------------------------------------------------------------------
(* Properties of GetOrSet *)

GetOrSetReturned == cacheLast.op = "getorset"

\* the key of the call was present when the call was made
WasPresent ==
    LET k == Prefix \o cacheLast.key
        db == cacheLast.before
    IN  k \in DOMAIN db /\ (db[k].expireAt = 0 \/ now < db[k].expireAt)

----------------------------------------------------------------------------
(* Properties of RateLimit *)

\* the number of requests of the key forwarded in the window (t - Window, t]
ForwardedInWindow(key, t) ==
    Cardinality({ i \in 1..Len(rlLog.fwd[key]) :
                    t - RateWindow < rlLog.fwd[key][i] /\ rlLog.fwd[key][i] <= t })

\* C22: for every key and every interval of length Window (taken half open,
\* ending at a forwarded request) at most Max requests of the key are
\* forwarded.
C22_AtMostMaxPerWindow ==
    \A key \in RateKeys :
        \A i \in 1..Len(rlLog.fwd[key]) :
            ForwardedInWindow(key, rlLog.fwd[key][i]) <= RateMax

\* C23: a request that arrives more than Window after all of its key's
\* previously forwarded requests is forwarded.
C23_OldRequestsDoNotCount ==
    LET r == rlLog.last
    IN  (r.key # "" /\ \A i \in 1..Len(r.prior) : r.at - r.prior[i] > RateWindow)
            => r.forward

\* the goroutines that have a client record in c
HaveRecord == { g \in Goroutines : rlG[g].pc \in {"found", "entered", "done"} }

----------------------------------------------------------------------------
(* Properties of the queue *)

\* the job is not waiting in the list
Settled(id) == \A i \in 1..Len(jq.queue) : jq.queue[i] # id

\* C25: a job whose handler fails is run again with the incremented attempt
\* count while Attempts is below MaxRetries: once it is no longer in the list
\* a job that failed every time has been run max(1, MaxRetries) times, its
\* i-th run saw Attempts = i - 1, and a job that succeeded was not run again.
C25_FailingJobIsRetried ==
    \A id \in 1..Len(jq.enqueued) :
        LET runs == jq.runs[id]
            max == IF jq.enqueued[id].MaxRetries > 1
                   THEN jq.enqueued[id].MaxRetries ELSE 1
        IN  /\ \A i \in 1..Len(runs) :
                  /\ runs[i].Attempts = i - 1
                  /\ i < Len(runs) => ~runs[i].ok
            /\ ( /\ ~jq.cancelled /\ Settled(id)
                 /\ jq.enqueued[id].Type = "mail"
                 /\ \A i \in 1..Len(runs) : ~runs[i].ok )
               => Len(runs) = max

----------------------------------------------------------------------------
(* Properties of Shutdown *)

ShutdownOrder ==
    <<"queue.Stop", "plugins.UnloadPlugins", "database.Close", "server.Shutdown">>

\* the position of a step in the fixed order
OrderOf(step) == CHOOSE i \in 1..4 : ShutdownOrder[i] = step

Did(c, step) == \E i \in 1..Len(c.steps) : c.steps[i] = step

\* C27: Shutdown performs its steps in the order queue stop, plugin unload,
\* database close, server shutdown, skips the steps of components the
\* application does not have, and stops at the first failing step: after a
\* failed plugin unload the database is not closed and the server not shut
\* down, after a failed database close the server is not shut down.
C27_ShutdownStopsAtFirstFailure ==
    \A n \in 1..Len(sd.calls) :
        LET c == sd.calls[n]
            pluginsFail == sd.has.plugins /\ ~c.ok.plugins
            databaseFail == sd.has.database /\ ~c.ok.database
        IN  /\ \A i, j \in 1..Len(c.steps) :
                  i < j => OrderOf(c.steps[i]) < OrderOf(c.steps[j])
            /\ Did(c, "queue.Stop") <=> sd.has.queue
            /\ sd.has.queue => jq.cancelled
            /\ Did(c, "plugins.UnloadPlugins") <=> sd.has.plugins
            /\ Did(c, "database.Close") <=> (sd.has.database /\ ~pluginsFail)
            /\ Did(c, "server.Shutdown") <=> (~pluginsFail /\ ~databaseFail)
            /\ pluginsFail => c.err = "failed to unload plugins"
            /\ (~pluginsFail /\ databaseFail) =>
                  c.err = "failed to close database"
            /\ (~pluginsFail /\ ~databaseFail) =>
                  (c.err = "" <=> c.ok.server)

\* an application with queue, plugins and database whose plugins fail to
\* unload: the queue is stopped, the database stays open, the server stays up
C27_Witness ==
    /\ sd.calls # <<>>
    /\ sd.has.queue /\ sd.has.plugins /\ sd.has.database
    /\ sd.calls[1].steps = <<"queue.Stop", "plugins.UnloadPlugins">>
    /\ sd.calls[1].err = "failed to unload plugins"
    /\ sd.calls[1].ok.database /\ sd.calls[1].ok.server

====
